---------------------------- MODULE Spec2Model ----------------------------
(***************************************************************************)
(* Model of tensorflow_probability/python/distributions/                   *)
(* gaussian_process.py: the diagonal stabilizer _add_diagonal_shift and    *)
(* the construction pipeline of GaussianProcess.__init__, together with    *)
(* the read-only accessors of the constructed object.                      *)
(*                                                                         *)
(* Numbers are integers.  The inputs are chosen so that every value the    *)
(* pipeline computes is an integer (see Representable), which is also      *)
(* exactly representable in float32/float64, so the floating-point         *)
(* evaluation of the code on the same inputs is exact.                     *)
(*                                                                         *)
(* TensorFlow 1.x runs this file in deferred (graph) execution by default  *)
(* and in eager execution when enabled; mode holds which.  In graph mode   *)
(* an operation only adds a node: a factorization that cannot succeed      *)
(* raises when the node is evaluated, not when __init__ creates it.  In    *)
(* graph mode the constructions of one process also share the default      *)
(* graph: tf.name_scope makes the scope name of each one unique in it.     *)
(*                                                                         *)
(* A tensor (or numpy array) is a record [kind, dtype, shape, data] with   *)
(* data the row-major flattening of the elements.                          *)
(***************************************************************************)
EXTENDS Integers, Sequences, FiniteSets, TLC

VARIABLES
  args,       \* the constructor's arguments (shared by the constructions)
  pc,         \* pc[i]: position of construction i inside __init__
  self,       \* self[i]: the private attributes _kernel, _index_points, ...
  tmp,        \* tmp[i]: locals of __init__ (K, kernel_matrix, scale, loc)
  dist,       \* dist[i]: parameters held by the multivariate-normal base
  error,      \* error[i]: the exception that ended construction i, or ""
  trace,      \* trace[i]: the calls construction i has made, in order
  readLog,    \* readLog[i][a]: the values accessor a has returned so far
  shiftTest,  \* a stand-alone application of _add_diagonal_shift
  mode,       \* the library's execution mode: "eager" or "graph"
  run,        \* run[i]: the outcome of evaluating the scale of object i, or ""
  graph,      \* the names in use in the default graph (shared by the constructions)
  scope       \* scope[i]: the name scope construction i runs in, or None

vars == <<args, pc, self, tmp, dist, error, trace, readLog, shiftTest, mode, run,
          graph, scope>>

-----------------------------------------------------------------------------
(* Bounds *)

\* largest number e of index points per batch member
MaxE == 2
\* largest matrix dimension N in the stand-alone stabilizer runs
MaxDim == 2

-----------------------------------------------------------------------------
(* Tensors *)

None == [kind |-> "None"]

RECURSIVE Prod(_)
Prod(shape) == IF shape = <<>> THEN 1 ELSE Head(shape) * Prod(Tail(shape))

\* shape without its last n dimensions
DropLast(shape, n) == SubSeq(shape, 1, Len(shape) - n)

Min(a, b) == IF a < b THEN a ELSE b

RECURSIVE SumTo(_, _)
\* f[1] + ... + f[n]
SumTo(f, n) == IF n = 0 THEN 0 ELSE f[n] + SumTo(f, n - 1)

\* A Python number, a numpy array and a tf.Tensor
PyNumber(v) == [kind |-> "number", value |-> v]
NdArray(dtype, shape, data) ==
  [kind |-> "ndarray", dtype |-> dtype, shape |-> shape, data |-> data]
Tensor(dtype, shape, data) ==
  [kind |-> "Tensor", dtype |-> dtype, shape |-> shape, data |-> data]

\* A graph node whose evaluation raises: it has a dtype and a static shape but
\* no value
InvalidTensor(dtype, shape) ==
  [kind |-> "InvalidTensor", dtype |-> dtype, shape |-> shape]

\* what tf.convert_to_tensor raises for a Tensor of another dtype
ConversionError == [kind |-> "ValueError"]

\* tf.convert_to_tensor(value, dtype), dtype "" when none is requested.
\* A Python number becomes a scalar tensor of the requested dtype (float32 when
\* none is requested); a numpy array is cast to the requested dtype and keeps
\* its own when none is requested; a Tensor is returned as it is when its dtype
\* is the requested one or none is requested, and is refused (ValueError)
\* otherwise.  The elements modelled are small integers, which both float types
\* hold exactly, so a cast changes the dtype and no element.
convert_to_tensor(value, dtype) ==
  IF value.kind = "number"
  THEN Tensor(IF dtype = "" THEN "float32" ELSE dtype, <<>>, <<value.value>>)
  ELSE IF value.kind = "ndarray"
  THEN Tensor(IF dtype = "" THEN value.dtype ELSE dtype, value.shape, value.data)
  ELSE IF dtype = "" \/ dtype = value.dtype
  THEN value
  ELSE ConversionError

\* One name in the default graph: a base name and the suffix _k that made it
\* unique (k = 0: no suffix)
GraphName(name, k) == [name |-> name, suffix |-> k]

\* Graph.unique_name(name): name, or name_k for the least k that is not in use
unique_name(name, used) ==
  GraphName(name,
            CHOOSE k \in 0..Cardinality(used) :
              /\ GraphName(name, k) \notin used
              /\ \A m \in 0..(k - 1) : GraphName(name, m) \in used)

\* tf.matrix_diag_part: [..., M, N] -> [..., min(M, N)]
matrix_diag_part(t) ==
  LET r == Len(t.shape)
      M == t.shape[r - 1]
      N == t.shape[r]
      K == Min(M, N)
      batch == DropLast(t.shape, 2)
  IN [kind  |-> t.kind,
      dtype |-> t.dtype,
      shape |-> batch \o <<K>>,
      data  |-> [p \in 1..(Prod(batch) * K) |->
                   LET b == (p - 1) \div K
                       i == (p - 1) % K
                   IN t.data[b * M * N + i * N + i + 1]]]

\* tf.matrix_set_diag: the input with its main diagonal replaced
matrix_set_diag(t, d) ==
  LET r == Len(t.shape)
      M == t.shape[r - 1]
      N == t.shape[r]
      K == Min(M, N)
  IN [kind  |-> t.kind,
      dtype |-> t.dtype,
      shape |-> t.shape,
      data  |-> [q \in 1..Len(t.data) |->
                   LET b   == (q - 1) \div (M * N)
                       row == ((q - 1) % (M * N)) \div N
                       col == (q - 1) % N
                   IN IF row = col THEN d.data[b * K + row + 1]
                                   ELSE t.data[q]]]

\* t + s for a scalar tensor s (broadcast over every element of t)
TensorAddScalar(t, s) ==
  [kind |-> t.kind, dtype |-> t.dtype, shape |-> t.shape,
   data |-> [p \in 1..Len(t.data) |-> t.data[p] + s.data[1]]]

\* a mutant of the stabilizer: shifts every entry, not only the diagonal
_add_diagonal_shift_all(matrix, shift) == TensorAddScalar(matrix, shift)

\* _add_diagonal_shift(matrix, shift)
_add_diagonal_shift(matrix, shift) ==
  matrix_set_diag(matrix, TensorAddScalar(matrix_diag_part(matrix), shift))

\* element [b, i, j] (0-based) of a batch of matrices
At(t, b, i, j) ==
  LET r == Len(t.shape)
  IN t.data[b * t.shape[r - 1] * t.shape[r] + i * t.shape[r] + j + 1]

\* batch member b (0-based) of a batch of N x N matrices, as rows of columns
Mat(t, b, N) == [i \in 1..N |-> [j \in 1..N |-> At(t, b, i - 1, j - 1)]]

-----------------------------------------------------------------------------
(* Collaborators: the kernel, the Cholesky factorization, the mean function
   and the multivariate-normal base *)

\* A linear kernel k(x, y) = bias + slope * <x, y> over one feature dimension
LinearKernel(bias, slope) ==
  [kind |-> "Linear", bias |-> bias, slope |-> slope, feature_ndims |-> 1]

\* kernel.matrix(x1, x2): [..., e1, D] x [..., e2, D] -> [..., e1, e2],
\* the pairwise applications of k
kernel_matrix_fn(k, x1, x2) ==
  LET r     == Len(x1.shape)
      D     == x1.shape[r]
      e1    == x1.shape[r - 1]
      e2    == x2.shape[r - 1]
      batch == DropLast(x1.shape, 2)
  IN Tensor(x1.dtype, batch \o <<e1, e2>>,
       [q \in 1..(Prod(batch) * e1 * e2) |->
          LET b == (q - 1) \div (e1 * e2)
              i == ((q - 1) % (e1 * e2)) \div e2
              j == (q - 1) % e2
          IN k.bias + k.slope *
               SumTo([f \in 1..D |-> x1.data[b * e1 * D + i * D + f]
                                     * x2.data[b * e2 * D + j * D + f]], D)])

IsSquare(s) == \E r \in 0..s : r * r = s
ISqrt(s) == CHOOSE r \in 0..s : r * r = s

RECURSIVE CholRows(_, _, _, _, _)
\* The Cholesky-Banachiewicz recurrence on the lower triangle of A, entry
\* (i, j) next.  "not_pd": a pivot is not positive, the factorization fails.
\* "inexact": the factor has a non-integer entry (outside the modelled inputs).
CholRows(A, N, L, i, j) ==
  IF i > N THEN [status |-> "ok", L |-> L]
  ELSE LET s == A[i][j] - SumTo([k \in 1..(j - 1) |-> L[i][k] * L[j][k]], j - 1)
       IN IF i = j
          THEN IF s <= 0 THEN [status |-> "not_pd", L |-> L]
               ELSE IF ~IsSquare(s) THEN [status |-> "inexact", L |-> L]
               ELSE CholRows(A, N, [L EXCEPT ![i][i] = ISqrt(s)], i + 1, 1)
          ELSE IF s % L[j][j] # 0 THEN [status |-> "inexact", L |-> L]
               ELSE CholRows(A, N, [L EXCEPT ![i][j] = s \div L[j][j]], i, j + 1)

CholMatrix(A, N) ==
  CholRows(A, N, [i \in 1..N |-> [j \in 1..N |-> 0]], 1, 1)

\* tf.linalg.cholesky on a batch [..., N, N]: the batch of lower-triangular
\* factors, or failure when some batch member is not positive definite
cholesky(t) ==
  LET N  == t.shape[Len(t.shape)]
      nb == Prod(DropLast(t.shape, 2))
      F  == [b \in 0..(nb - 1) |-> CholMatrix(Mat(t, b, N), N)]
  IN IF \E b \in 0..(nb - 1) : F[b].status = "inexact"
     THEN [status |-> "inexact", value |-> None]
     ELSE IF \E b \in 0..(nb - 1) : F[b].status = "not_pd"
     THEN [status |-> "not_pd", value |-> None]
     ELSE [status |-> "ok",
           value  |-> Tensor(t.dtype, t.shape,
                        [q \in 1..Len(t.data) |->
                           LET Lb == F[(q - 1) \div (N * N)].L
                           IN Lb[(((q - 1) % (N * N)) \div N) + 1][((q - 1) % N) + 1]])]

\* tf.linalg.LinearOperatorLowerTriangular(tril, is_non_singular=True)
LinearOperatorLowerTriangular(tril, is_non_singular) ==
  [kind |-> "LinearOperatorLowerTriangular", tril |-> tril,
   is_non_singular |-> is_non_singular]

\* L L^T for a batch of square matrices
MatMulTranspose(t) ==
  LET N == t.shape[Len(t.shape)]
  IN Tensor(t.dtype, t.shape,
       [q \in 1..Len(t.data) |->
          LET b == (q - 1) \div (N * N)
              i == ((q - 1) % (N * N)) \div N
              j == (q - 1) % N
          IN SumTo([k \in 1..N |-> At(t, b, i, k - 1) * At(t, b, j, k - 1)], N)])

\* callable(mean_fn)
callable(f) == f.kind = "callable"

\* lambda x: np.array([0.], dtype)
DefaultMeanFn(dtype) == [kind |-> "callable", fn |-> "zero", dtype |-> dtype]

\* a user mean function, lambda x: x[..., 0]
FirstFeature == [kind |-> "callable", fn |-> "first_feature", dtype |-> ""]

\* a mutant of the default mean: zeros of the full shape [b1..bB, e]
CallMeanFn_zeros_like(f, x) ==
  LET D == x.shape[Len(x.shape)]
  IN Tensor(x.dtype, DropLast(x.shape, 1),
       [p \in 1..(Len(x.data) \div D) |->
          IF f.fn = "zero" THEN 0 ELSE x.data[(p - 1) * D + 1]])

\* f(x) for the callables above
CallMeanFn(f, x) ==
  IF f.fn = "zero"
  THEN NdArray(f.dtype, <<1>>, <<0>>)
  ELSE LET D == x.shape[Len(x.shape)]
       IN Tensor(x.dtype, DropLast(x.shape, 1),
            [p \in 1..(Len(x.data) \div D) |-> x.data[(p - 1) * D + 1]])

\* MultivariateNormalLinearOperator.__init__(loc, scale, validate_args,
\* allow_nan_stats, name): the parameters the base distribution holds
MultivariateNormalLinearOperator(loc, scale, validate_args, allow_nan_stats, name) ==
  [kind |-> "MultivariateNormalLinearOperator",
   loc |-> convert_to_tensor(loc, ""), scale |-> scale,
   validate_args |-> validate_args, allow_nan_stats |-> allow_nan_stats,
   name |-> name]

\* the event size of the base: the range dimension of scale
event_size(d) == d.scale.tril.shape[Len(d.scale.tril.shape)]

\* the covariance of the base: scale scale^T
covariance(d) == MatMulTranspose(d.scale.tril)

-----------------------------------------------------------------------------
(* The constructor's arguments *)

DTypes == {"float32", "float64"}
PointVals == {0, 1}
BatchShapes == {<<>>, <<2>>}
FeatureShape == <<1>>
Kernels == {LinearKernel(b, 1) : b \in {0, 1, 2}}
Jitters == {-1, 0, 2}
\* omitted, a plain number (not callable), a callable
MeanFns == {None, PyNumber(3), FirstFeature}

IndexPointsOfShape(shape) ==
  {NdArray(d, shape, data) : d \in DTypes, data \in [1..Prod(shape) -> PointVals]}

IndexPoints ==
  UNION {IndexPointsOfShape(bs \o <<e>> \o FeatureShape) :
           bs \in BatchShapes, e \in 1..MaxE}

\* The stabilized kernel matrix either fails to factor or has an integer
\* Cholesky factor.
Representable(k, ip, j) ==
  LET x == convert_to_tensor(ip, "")
  IN cholesky(_add_diagonal_shift(kernel_matrix_fn(k, x, x),
                                  convert_to_tensor(PyNumber(j), x.dtype))).status
       # "inexact"

\* <<validate_args, allow_nan_stats>>: the defaults, and both flags set
Flags == {<<FALSE, FALSE>>, <<TRUE, TRUE>>}

\* the jitter argument: a Python number, or the value -1 as a float32 scalar
\* Tensor or numpy scalar (of the index points' dtype or not, as DTypes has both)
TypedJitters == {-1}
JitterArgs ==
  {PyNumber(j) : j \in Jitters}
    \cup {Tensor("float32", <<>>, <<j>>) : j \in TypedJitters}
    \cup {NdArray("float32", <<>>, <<j>>) : j \in TypedJitters}

\* the number a jitter argument holds
JitterValue(j) == IF j.kind = "number" THEN j.value ELSE j.data[1]

Args(k, ip, j) ==
  {[kernel |-> k, index_points |-> ip, mean_fn |-> m, jitter |-> j,
    validate_args |-> f[1], allow_nan_stats |-> f[2],
    name |-> "GaussianProcess"] :
     m \in MeanFns, f \in Flags}

Modes == {"eager", "graph"}

-----------------------------------------------------------------------------
(* GaussianProcess.__init__, one action per statement *)

\* the constructions: Spec runs the first, SpecPair runs both side by side
Inst == {1, 2}

NoSelf == [_kernel |-> None, _index_points |-> None, _mean_fn |-> None,
           _jitter |-> None]
NoTmp == [K |-> None, kernel_matrix |-> None, scale |-> None, loc |-> None]
NoShiftTest == [matrix |-> None, shift |-> None, out |-> None]
Accessors == {"mean_fn", "kernel", "index_points", "jitter"}

InitObjects ==
  /\ pc = [i \in Inst |-> "index_points"]
  /\ self = [i \in Inst |-> NoSelf]
  /\ tmp = [i \in Inst |-> NoTmp]
  /\ dist = [i \in Inst |-> None]
  /\ error = [i \in Inst |-> ""]
  /\ trace = [i \in Inst |-> <<>>]
  /\ readLog = [i \in Inst |-> [a \in Accessors |-> {}]]
  /\ run = [i \in Inst |-> ""]
  /\ graph = {}
  /\ scope = [i \in Inst |-> None]

Init ==
  /\ \E k \in Kernels, ip \in IndexPoints, j \in JitterArgs :
       /\ Representable(k, ip, JitterValue(j))
       /\ args \in Args(k, ip, j)
  /\ mode \in Modes
  /\ InitObjects
  /\ shiftTest = NoShiftTest

\* mean_fn is not None and not callable(mean_fn)
NonCallable == args.mean_fn # None /\ ~callable(args.mean_fn)

\* with tf.name_scope(name) as name: in graph mode the scope's name is made
\* unique in the default graph and marked as in use; in eager mode it is the
\* name as given
name_scope(name) ==
  IF mode = "graph" THEN unique_name(name, graph) ELSE GraphName(name, 0)

\* with tf.name_scope(name) as name:
\*   self._kernel = kernel
\*   self._index_points = tf.convert_to_tensor(index_points)
ConvertIndexPoints(i) ==
  /\ pc[i] = "index_points"
  /\ scope' = [scope EXCEPT ![i] = name_scope(args.name)]
  /\ graph' = IF mode = "graph" THEN graph \cup {name_scope(args.name)} ELSE graph
  /\ self' = [self EXCEPT ![i]._kernel = args.kernel,
                          ![i]._index_points =
                              convert_to_tensor(args.index_points, "")]
  /\ trace' = [trace EXCEPT ![i] = Append(@, "convert_index_points")]
  /\ pc' = [pc EXCEPT ![i] = "mean_fn"]
  /\ UNCHANGED <<args, tmp, dist, error, readLog, shiftTest, mode, run>>

\* a mutant: mean_fn is stored without the callable() check
ResolveMeanFn_unchecked(i) ==
  /\ pc[i] = "mean_fn"
  /\ trace' = [trace EXCEPT ![i] = Append(@, "resolve_mean_fn")]
  /\ self' = [self EXCEPT ![i]._mean_fn =
                IF args.mean_fn = None
                THEN DefaultMeanFn(self[i]._index_points.dtype)
                ELSE args.mean_fn]
  /\ pc' = [pc EXCEPT ![i] = "jitter"]
  /\ UNCHANGED <<args, tmp, dist, error, readLog, shiftTest, mode, run, graph, scope>>

\* a mutant: the mean is evaluated as soon as mean_fn is resolved
ResolveMeanFn_eager(i) ==
  /\ pc[i] = "mean_fn"
  /\ IF NonCallable
     THEN /\ error' = [error EXCEPT ![i] = "ValueError"]
          /\ pc' = [pc EXCEPT ![i] = "raised"]
          /\ trace' = [trace EXCEPT ![i] = Append(@, "resolve_mean_fn")]
          /\ UNCHANGED <<self, tmp>>
     ELSE LET f == IF args.mean_fn = None
                   THEN DefaultMeanFn(self[i]._index_points.dtype)
                   ELSE args.mean_fn
          IN /\ self' = [self EXCEPT ![i]._mean_fn = f]
             /\ tmp' = [tmp EXCEPT ![i].loc = CallMeanFn(f, self[i]._index_points)]
             /\ trace' = [trace EXCEPT ![i] = @ \o <<"resolve_mean_fn", "mean_fn">>]
             /\ pc' = [pc EXCEPT ![i] = "jitter"]
             /\ UNCHANGED error
  /\ UNCHANGED <<args, dist, readLog, shiftTest, mode, run, graph, scope>>

\* if mean_fn is None: default; elif not callable: raise ValueError
ResolveMeanFn(i) ==
  /\ pc[i] = "mean_fn"
  /\ trace' = [trace EXCEPT ![i] = Append(@, "resolve_mean_fn")]
  /\ IF args.mean_fn = None
     THEN /\ self' = [self EXCEPT ![i]._mean_fn =
                        DefaultMeanFn(self[i]._index_points.dtype)]
          /\ pc' = [pc EXCEPT ![i] = "jitter"]
          /\ UNCHANGED error
     ELSE IF ~callable(args.mean_fn)
     THEN /\ error' = [error EXCEPT ![i] = "ValueError"]
          /\ pc' = [pc EXCEPT ![i] = "raised"]
          /\ UNCHANGED self
     ELSE /\ self' = [self EXCEPT ![i]._mean_fn = args.mean_fn]
          /\ pc' = [pc EXCEPT ![i] = "jitter"]
          /\ UNCHANGED error
  /\ UNCHANGED <<args, tmp, dist, readLog, shiftTest, mode, run, graph, scope>>

\* a mutant: the jitter is kept in a graph variable, tf.get_variable("jitter"),
\* whose name no name scope qualifies: a second construction in the same graph
\* finds the name in use
ConvertJitter_variable(i) ==
  /\ pc[i] = "jitter"
  /\ trace' = [trace EXCEPT ![i] = Append(@, "convert_jitter")]
  /\ LET t == convert_to_tensor(args.jitter, self[i]._index_points.dtype)
     IN IF t = ConversionError
           \/ (mode = "graph" /\ GraphName("jitter", 0) \in graph)
        THEN /\ error' = [error EXCEPT ![i] = "ValueError"]
             /\ pc' = [pc EXCEPT ![i] = "raised"]
             /\ UNCHANGED <<self, graph>>
        ELSE /\ self' = [self EXCEPT ![i]._jitter = t]
             /\ graph' = IF mode = "graph"
                         THEN graph \cup {GraphName("jitter", 0)} ELSE graph
             /\ pc' = [pc EXCEPT ![i] = "kernel_matrix"]
             /\ UNCHANGED error
  /\ UNCHANGED <<args, tmp, dist, readLog, shiftTest, mode, run, scope>>

\* a mutant: a negative jitter is clamped to zero
ConvertJitter_clamp(i) ==
  /\ pc[i] = "jitter"
  /\ trace' = [trace EXCEPT ![i] = Append(@, "convert_jitter")]
  /\ LET t == convert_to_tensor(
                IF JitterValue(args.jitter) < 0 THEN PyNumber(0) ELSE args.jitter,
                self[i]._index_points.dtype)
     IN IF t = ConversionError
        THEN /\ error' = [error EXCEPT ![i] = "ValueError"]
             /\ pc' = [pc EXCEPT ![i] = "raised"]
             /\ UNCHANGED self
        ELSE /\ self' = [self EXCEPT ![i]._jitter = t]
             /\ pc' = [pc EXCEPT ![i] = "kernel_matrix"]
             /\ UNCHANGED error
  /\ UNCHANGED <<args, tmp, dist, readLog, shiftTest, mode, run, graph, scope>>

\* self._jitter = tf.convert_to_tensor(jitter, dtype=dtype)
\* A jitter that is a Tensor of another dtype than the index points' is refused
\* by the conversion, which raises ValueError.
ConvertJitter(i) ==
  /\ pc[i] = "jitter"
  /\ trace' = [trace EXCEPT ![i] = Append(@, "convert_jitter")]
  /\ LET t == convert_to_tensor(args.jitter, self[i]._index_points.dtype)
     IN IF t = ConversionError
        THEN /\ error' = [error EXCEPT ![i] = "ValueError"]
             /\ pc' = [pc EXCEPT ![i] = "raised"]
             /\ UNCHANGED self
        ELSE /\ self' = [self EXCEPT ![i]._jitter = t]
             /\ pc' = [pc EXCEPT ![i] = "kernel_matrix"]
             /\ UNCHANGED error
  /\ UNCHANGED <<args, tmp, dist, readLog, shiftTest, mode, run, graph, scope>>

\* x[..., :1, :]: the first index point of every batch member
FirstPoint(x) ==
  LET r == Len(x.shape)
      D == x.shape[r]
      e == x.shape[r - 1]
      batch == DropLast(x.shape, 2)
  IN Tensor(x.dtype, batch \o <<1, D>>,
       [p \in 1..(Prod(batch) * D) |->
          x.data[((p - 1) \div D) * e * D + ((p - 1) % D) + 1]])

\* a mutant: the kernel is evaluated on the first index point only
KernelMatrix_first_point(i) ==
  /\ pc[i] = "kernel_matrix"
  /\ tmp' = [tmp EXCEPT ![i].K =
               kernel_matrix_fn(args.kernel, FirstPoint(self[i]._index_points),
                                FirstPoint(self[i]._index_points))]
  /\ trace' = [trace EXCEPT ![i] = Append(@, "kernel.matrix")]
  /\ pc' = [pc EXCEPT ![i] = "add_diagonal_shift"]
  /\ UNCHANGED <<args, self, dist, error, readLog, shiftTest, mode, run, graph, scope>>

\* kernel.matrix(self.index_points, self.index_points)
KernelMatrix(i) ==
  /\ pc[i] = "kernel_matrix"
  /\ tmp' = [tmp EXCEPT ![i].K =
               kernel_matrix_fn(args.kernel, self[i]._index_points,
                                self[i]._index_points)]
  /\ trace' = [trace EXCEPT ![i] = Append(@, "kernel.matrix")]
  /\ pc' = [pc EXCEPT ![i] = "add_diagonal_shift"]
  /\ UNCHANGED <<args, self, dist, error, readLog, shiftTest, mode, run, graph, scope>>

\* a mutant: the raw kernel matrix is factored, the jitter is left out
AddDiagonalShift_skip(i) ==
  /\ pc[i] = "add_diagonal_shift"
  /\ tmp' = [tmp EXCEPT ![i].kernel_matrix = tmp[i].K]
  /\ trace' = [trace EXCEPT ![i] = Append(@, "_add_diagonal_shift")]
  /\ pc' = [pc EXCEPT ![i] = "cholesky"]
  /\ UNCHANGED <<args, self, dist, error, readLog, shiftTest, mode, run, graph, scope>>

\* kernel_matrix = _add_diagonal_shift(<kernel.matrix(...)>, self.jitter)
AddDiagonalShift(i) ==
  /\ pc[i] = "add_diagonal_shift"
  /\ tmp' = [tmp EXCEPT ![i].kernel_matrix =
               _add_diagonal_shift(tmp[i].K, self[i]._jitter)]
  /\ trace' = [trace EXCEPT ![i] = Append(@, "_add_diagonal_shift")]
  /\ pc' = [pc EXCEPT ![i] = "cholesky"]
  /\ UNCHANGED <<args, self, dist, error, readLog, shiftTest, mode, run, graph, scope>>

\* a mutant: a failed factorization is retried with a larger jitter
Cholesky_retry(i) ==
  /\ pc[i] = "cholesky"
  /\ trace' = [trace EXCEPT ![i] = Append(@, "cholesky")]
  /\ LET c == cholesky(tmp[i].kernel_matrix)
     IN IF c.status = "ok"
        THEN /\ tmp' = [tmp EXCEPT ![i].scale =
                          LinearOperatorLowerTriangular(c.value, TRUE)]
             /\ pc' = [pc EXCEPT ![i] = "loc"]
             /\ UNCHANGED <<error, self>>
        ELSE IF self[i]._jitter.data[1] < 4
        THEN /\ self' = [self EXCEPT ![i]._jitter =
                           TensorAddScalar(@, Tensor(@.dtype, <<>>, <<1>>))]
             /\ pc' = [pc EXCEPT ![i] = "add_diagonal_shift"]
             /\ UNCHANGED <<error, tmp>>
        ELSE /\ error' = [error EXCEPT ![i] = "InvalidArgumentError"]
             /\ pc' = [pc EXCEPT ![i] = "raised"]
             /\ UNCHANGED <<tmp, self>>
  /\ UNCHANGED <<args, dist, readLog, shiftTest, mode, run, graph, scope>>

\* scale = LinearOperatorLowerTriangular(tf.linalg.cholesky(kernel_matrix),
\*                                       is_non_singular=True)
\* A factorization that fails raises here in eager mode; in graph mode it is a
\* node that raises when evaluated, and __init__ goes on.
Cholesky(i) ==
  /\ pc[i] = "cholesky"
  /\ trace' = [trace EXCEPT ![i] = Append(@, "cholesky")]
  /\ LET c == cholesky(tmp[i].kernel_matrix)
     IN IF c.status = "ok"
        THEN /\ tmp' = [tmp EXCEPT ![i].scale =
                          LinearOperatorLowerTriangular(c.value, TRUE)]
             /\ pc' = [pc EXCEPT ![i] = "loc"]
             /\ UNCHANGED error
        ELSE IF mode = "eager"
        THEN /\ error' = [error EXCEPT ![i] = "InvalidArgumentError"]
             /\ pc' = [pc EXCEPT ![i] = "raised"]
             /\ UNCHANGED tmp
        ELSE /\ tmp' = [tmp EXCEPT ![i].scale =
                          LinearOperatorLowerTriangular(
                            InvalidTensor(tmp[i].kernel_matrix.dtype,
                                          tmp[i].kernel_matrix.shape), TRUE)]
             /\ pc' = [pc EXCEPT ![i] = "loc"]
             /\ UNCHANGED error
  /\ UNCHANGED <<args, self, dist, readLog, shiftTest, mode, run, graph, scope>>

\* loc=self._mean_fn(self.index_points)
EvalMeanFn(i) ==
  /\ pc[i] = "loc"
  /\ tmp' = [tmp EXCEPT ![i].loc =
               CallMeanFn(self[i]._mean_fn, self[i]._index_points)]
  /\ trace' = [trace EXCEPT ![i] = Append(@, "mean_fn")]
  /\ pc' = [pc EXCEPT ![i] = "super_init"]
  /\ UNCHANGED <<args, self, dist, error, readLog, shiftTest, mode, run, graph, scope>>

\* super(GaussianProcess, self).__init__(loc=..., scale=scale,
\*     validate_args=validate_args, allow_nan_stats=allow_nan_stats, name=name)
SuperInit(i) ==
  /\ pc[i] = "super_init"
  /\ dist' = [dist EXCEPT ![i] =
                MultivariateNormalLinearOperator(
                  tmp[i].loc, tmp[i].scale,
                  args.validate_args, args.allow_nan_stats, scope[i])]
  /\ trace' = [trace EXCEPT ![i] = Append(@, "super.__init__")]
  /\ pc' = [pc EXCEPT ![i] = "constructed"]
  /\ UNCHANGED <<args, self, tmp, error, readLog, shiftTest, mode, run, graph, scope>>

Construct(i) ==
  \/ ConvertIndexPoints(i)
  \/ ResolveMeanFn(i)
  \/ ConvertJitter(i)
  \/ KernelMatrix(i)
  \/ AddDiagonalShift(i)
  \/ Cholesky(i)
  \/ EvalMeanFn(i)
  \/ SuperInit(i)

-----------------------------------------------------------------------------
(* The accessors of a constructed object *)

Returns(i, a, value) ==
  /\ pc[i] = "constructed"
  /\ readLog' = [readLog EXCEPT ![i][a] = @ \cup {value}]
  /\ UNCHANGED <<args, pc, self, tmp, dist, error, trace, shiftTest, mode, run, graph, scope>>

\* @property mean_fn: return self._mean_fn
mean_fn(i) == Returns(i, "mean_fn", self[i]._mean_fn)

\* a mutant: reading kernel evaluates kernel.matrix again
kernel_reeval(i) ==
  /\ pc[i] = "constructed"
  /\ Len(trace[i]) < 10
  /\ readLog' = [readLog EXCEPT ![i]["kernel"] = @ \cup {self[i]._kernel}]
  /\ tmp' = [tmp EXCEPT ![i].K =
               kernel_matrix_fn(self[i]._kernel, self[i]._index_points,
                                self[i]._index_points)]
  /\ trace' = [trace EXCEPT ![i] = Append(@, "kernel.matrix")]
  /\ UNCHANGED <<args, pc, self, dist, error, shiftTest, mode, run, graph, scope>>

\* @property kernel: return self._kernel
kernel(i) == Returns(i, "kernel", self[i]._kernel)

\* @property index_points: return self._index_points
index_points(i) == Returns(i, "index_points", self[i]._index_points)

\* @property jitter: return self._jitter
jitter(i) == Returns(i, "jitter", self[i]._jitter)

\* sess.run on the scale of a constructed object (in eager mode the value is
\* already there): the factor, or the error of a failed factorization
Evaluate(i) ==
  /\ pc[i] = "constructed"
  /\ run[i] = ""
  /\ run' = [run EXCEPT ![i] =
               IF dist[i].scale.tril.kind = "Tensor"
               THEN "ok" ELSE "InvalidArgumentError"]
  /\ UNCHANGED <<args, pc, self, tmp, dist, error, trace, readLog, shiftTest, mode, graph, scope>>

Next ==
  \/ Construct(1)
  \/ mean_fn(1)
  \/ kernel(1)
  \/ index_points(1)
  \/ jitter(1)
  \/ Evaluate(1)

Spec == Init /\ [][Next]_vars

\* two constructions from the same arguments, interleaved step by step
NextPair ==
  \/ Construct(1)
  \/ Construct(2)

SpecPair == Init /\ [][NextPair]_vars

-----------------------------------------------------------------------------
(* The stabilizer on its own: any square matrix, any scalar shift *)

ShiftVals == {-1, 0, 1}
ShiftShifts == {-1, 0, 2}

\* the square matrices of dimension up to MaxN
ShiftMatrices(MaxN) ==
  UNION {{Tensor("float64", <<N, N>>, data) :
            data \in [1..(N * N) -> ShiftVals]} : N \in 1..MaxN}

InitShift ==
  /\ args = None
  /\ mode = "eager"
  /\ InitObjects
  /\ \E m \in ShiftMatrices(MaxDim), j \in ShiftShifts :
       shiftTest = [matrix |-> m,
                    shift  |-> convert_to_tensor(PyNumber(j), m.dtype),
                    out    |-> None]

ApplyShift ==
  /\ shiftTest.out = None
  /\ shiftTest' = [shiftTest EXCEPT
                     !.out = _add_diagonal_shift(shiftTest.matrix, shiftTest.shift)]
  /\ UNCHANGED <<args, pc, self, tmp, dist, error, trace, readLog, mode, run, graph, scope>>

NextShift == ApplyShift

SpecShift == InitShift /\ [][NextShift]_vars

-----------------------------------------------------------------------------
(* Properties *)

\* how many times a call appears in a trace
Count(tr, name) == Cardinality({k \in 1..Len(tr) : tr[k] = name})

Finished(i) == pc[i] \in {"constructed", "raised"}

\* C1: _add_diagonal_shift(K, j) has the shape of K, adds j to every diagonal
\* entry and leaves every off-diagonal entry as it was.
C1_ShiftOnlyDiagonal ==
  shiftTest.out # None =>
    LET K == shiftTest.matrix
        M == shiftTest.out
        j == shiftTest.shift.data[1]
        N == K.shape[2]
    IN /\ M.shape = K.shape
       /\ Len(M.data) = N * N
       /\ \A i, k \in 0..(N - 1) :
            At(M, 0, i, k) = IF i = k THEN At(K, 0, i, i) + j ELSE At(K, 0, i, k)

\* a 2 x 2 matrix with non-zero off-diagonal entries has been shifted by j # 0
C1_Witness ==
  /\ shiftTest.out # None
  /\ shiftTest.matrix.shape = <<2, 2>>
  /\ shiftTest.shift.data[1] # 0
  /\ At(shiftTest.matrix, 0, 0, 1) # 0
  /\ At(shiftTest.matrix, 0, 1, 0) # 0

\* M = K + j I, entry by entry, over a batch of square matrices
IsShiftedBy(M, K, j) ==
  LET N  == K.shape[Len(K.shape)]
      nb == Prod(DropLast(K.shape, 2))
  IN /\ M.shape = K.shape
     /\ \A b \in 0..(nb - 1) : \A i, k \in 0..(N - 1) :
          At(M, b, i, k) = At(K, b, i, k) + (IF i = k THEN j ELSE 0)

\* C2: with a supplied, non-callable mean_fn the construction fails with the
\* invalid-argument error the code raises (ValueError), having never called
\* kernel.matrix, the stabilizer or the Cholesky factorization, and produces no
\* distribution.
C2_NonCallableFailsFast ==
  \A i \in Inst :
    NonCallable =>
      /\ pc[i] \in {"index_points", "mean_fn", "raised"}
      /\ pc[i] = "raised" => error[i] = "ValueError"
      /\ pc[i] # "raised" => error[i] = ""
      /\ Count(trace[i], "kernel.matrix") = 0
      /\ Count(trace[i], "_add_diagonal_shift") = 0
      /\ Count(trace[i], "cholesky") = 0
      /\ tmp[i] = NoTmp
      /\ dist[i] = None

C2_Witness ==
  /\ NonCallable
  /\ pc[1] = "raised"
  /\ error[1] = "ValueError"
  /\ trace[1] = <<"convert_index_points", "resolve_mean_fn">>

\* C3 as claimed: with mean_fn omitted the loc handed to the base is all zeros
\* and has the shape [b1..bB, e] of the batch of index points.
C3_LocHasBatchShape ==
  \A i \in Inst :
    (pc[i] = "constructed" /\ args.mean_fn = None) =>
      /\ \A p \in 1..Len(dist[i].loc.data) : dist[i].loc.data[p] = 0
      /\ dist[i].loc.shape = DropLast(self[i]._index_points.shape, 1)

\* C3 as amended: with mean_fn omitted the loc handed to the base is the
\* one-element zero vector [0.] of the index points' dtype, whatever the shape
\* of the index points.
C3_DefaultLocIsZeroVector ==
  \A i \in Inst :
    (pc[i] = "constructed" /\ args.mean_fn = None) =>
      /\ tmp[i].loc = NdArray(args.index_points.dtype, <<1>>, <<0>>)
      /\ dist[i].loc = Tensor(args.index_points.dtype, <<1>>, <<0>>)

\* a default-mean construction over a batch of 2 x 2 index points
C3_Witness ==
  /\ pc[1] = "constructed"
  /\ args.mean_fn = None
  /\ args.index_points.shape = <<2, 2, 1>>
  /\ dist[1].loc.shape = <<1>>

\* construction i has completed and its factorization has a value
Succeeded(i) ==
  /\ pc[i] = "constructed"
  /\ dist[i].scale.tril.kind = "Tensor"

\* C4: on success scale is the lower-triangular, non-singular operator of the
\* Cholesky factor of K' = _add_diagonal_shift(kernel.matrix(x, x), jitter), so
\* scale scale^T = K + jitter I, which is not K when jitter # 0.
C4_CovarianceIsJittered ==
  \A i \in Inst :
    Succeeded(i) =>
      LET x  == convert_to_tensor(args.index_points, "")
          K  == kernel_matrix_fn(args.kernel, x, x)
          j  == JitterValue(args.jitter)
          L  == dist[i].scale.tril
          N  == L.shape[Len(L.shape)]
          nb == Prod(DropLast(L.shape, 2))
      IN /\ dist[i].scale.kind = "LinearOperatorLowerTriangular"
         /\ dist[i].scale.is_non_singular
         /\ \A b \in 0..(nb - 1) : \A r, c \in 0..(N - 1) :
              /\ r < c => At(L, b, r, c) = 0
              /\ r = c => At(L, b, r, c) > 0
         /\ IsShiftedBy(covariance(dist[i]), K, j)
         /\ j # 0 => covariance(dist[i]) # K

\* a success with non-zero jitter on a 2 x 2 kernel matrix with non-zero
\* off-diagonal entries
C4_Witness ==
  /\ Succeeded(1)
  /\ JitterValue(args.jitter) # 0
  /\ args.index_points.shape = <<2, 1>>
  /\ At(tmp[1].K, 0, 0, 1) # 0
  /\ At(dist[1].scale.tril, 0, 1, 0) # 0

C6_EventSizeIsE ==
  \A i \in Inst :
    (pc[i] = "constructed" /\ Len(args.index_points.shape) = 2) =>
      event_size(dist[i]) = args.index_points.shape[1]

C6_Witness ==
  /\ pc[1] = "constructed"
  /\ args.index_points.shape = <<2, 1>>
  /\ args.mean_fn = FirstFeature
  /\ event_size(dist[1]) = 2

\* the calls of a successful construction, in order
CallOrder ==
  <<"convert_index_points", "resolve_mean_fn", "convert_jitter",
    "kernel.matrix", "_add_diagonal_shift", "cholesky", "mean_fn",
    "super.__init__">>

IsPrefix(a, b) == Len(a) <= Len(b) /\ a = SubSeq(b, 1, Len(a))

\* C7: a construction makes its calls in the order of CallOrder, each once:
\* every trace is a prefix of CallOrder, and a successful construction has made
\* them all; mean_fn is therefore never evaluated before the factorization.
C7_CallOrder ==
  \A i \in Inst :
    /\ IsPrefix(trace[i], CallOrder)
    /\ pc[i] = "constructed" => trace[i] = CallOrder
    /\ Count(trace[i], "mean_fn") > 0 => Count(trace[i], "cholesky") = 1

C7_Witness ==
  /\ pc[1] = "constructed"
  /\ trace[1] = CallOrder
  /\ args.mean_fn = FirstFeature

\* the factorization of the stabilized matrix of construction i has been
\* attempted and cannot succeed
CholeskyFailed(i) ==
  /\ Count(trace[i], "cholesky") > 0
  /\ cholesky(tmp[i].kernel_matrix).status # "ok"

\* no retry: one kernel.matrix, one factorization, the caller's jitter
AttemptedOnce(i) ==
  /\ Count(trace[i], "kernel.matrix") <= 1
  /\ Count(trace[i], "cholesky") <= 1
  /\ CholeskyFailed(i) =>
       /\ self[i]._jitter.data = <<JitterValue(args.jitter)>>
       /\ IsShiftedBy(tmp[i].kernel_matrix, tmp[i].K, JitterValue(args.jitter))

\* C8 as claimed: a failed factorization ends the construction there, without
\* retry: kernel.matrix and the factorization are attempted at most once, the
\* jitter is the caller's, mean_fn is not evaluated and no distribution is
\* produced.
C8_NoRetry ==
  \A i \in Inst :
    /\ AttemptedOnce(i)
    /\ CholeskyFailed(i) =>
         /\ pc[i] = "raised"
         /\ error[i] = "InvalidArgumentError"
         /\ trace[i] = SubSeq(CallOrder, 1, 6)
         /\ Count(trace[i], "mean_fn") = 0
         /\ tmp[i].loc = None
         /\ dist[i] = None

\* C8 as amended: a failed factorization is never retried (one kernel.matrix,
\* one factorization, the caller's jitter).  In eager mode it ends the
\* construction there: mean_fn is not evaluated and no distribution is
\* produced.  In graph mode the construction runs on and returns an object
\* whose scale has no value; the error surfaces when the scale is evaluated.
C8_NoRetryEitherMode ==
  \A i \in Inst :
    /\ AttemptedOnce(i)
    /\ (CholeskyFailed(i) /\ mode = "eager") =>
         /\ pc[i] = "raised"
         /\ error[i] = "InvalidArgumentError"
         /\ trace[i] = SubSeq(CallOrder, 1, 6)
         /\ Count(trace[i], "mean_fn") = 0
         /\ tmp[i].loc = None
         /\ tmp[i].scale = None
         /\ dist[i] = None
    /\ (CholeskyFailed(i) /\ mode = "graph") =>
         /\ pc[i] \in {"loc", "super_init", "constructed"}
         /\ error[i] = ""
         /\ tmp[i].scale.tril.kind = "InvalidTensor"
         /\ pc[i] = "constructed" =>
              /\ trace[i] = CallOrder
              /\ dist[i].scale = tmp[i].scale
              /\ run[i] \in {"", "InvalidArgumentError"}
    /\ run[i] = "InvalidArgumentError" => CholeskyFailed(i)

\* in graph mode, a factorization that fails on its second pivot (the first is
\* positive): the object was returned and evaluating its scale has raised
C8_Witness ==
  /\ mode = "graph"
  /\ CholeskyFailed(1)
  /\ pc[1] = "constructed"
  /\ run[1] = "InvalidArgumentError"
  /\ args.index_points.shape = <<2, 1>>
  /\ At(tmp[1].kernel_matrix, 0, 0, 0) > 0

\* C9: once constructed, reading the accessors changes no attribute, local or
\* parameter of the object and makes no further call, and every accessor has
\* returned one value only.
C9_ReadsChangeNothing ==
  /\ [](\A i \in Inst : \A a \in Accessors : Cardinality(readLog[i][a]) <= 1)
  /\ [][\A i \in Inst :
          pc[i] = "constructed" =>
            /\ pc'[i] = pc[i]
            /\ self'[i] = self[i]
            /\ tmp'[i] = tmp[i]
            /\ dist'[i] = dist[i]
            /\ trace'[i] = trace[i]
            /\ error'[i] = error[i]]_vars

\* every accessor has been read on a constructed object
C9_Witness ==
  /\ pc[1] = "constructed"
  /\ readLog[1]["mean_fn"] = {self[1]._mean_fn}
  /\ readLog[1]["kernel"] = {args.kernel}
  /\ readLog[1]["index_points"] = {self[1]._index_points}
  /\ readLog[1]["jitter"] = {self[1]._jitter}

NegativeJitter == JitterValue(args.jitter) < 0 /\ ~args.validate_args

\* the jitter is a Tensor of another dtype than the index points'
JitterDTypeMismatch ==
  args.jitter.kind = "Tensor" /\ args.jitter.dtype # args.index_points.dtype

\* the jitter is used as supplied: stored as a scalar of the index points'
\* dtype with its value unchanged, and added unchanged
JitterUsedAsSupplied(i) ==
  /\ self[i]._jitter # None =>
       /\ self[i]._jitter.data = <<JitterValue(args.jitter)>>
       /\ self[i]._jitter.shape = <<>>
       /\ self[i]._jitter.dtype = self[i]._index_points.dtype
  /\ tmp[i].kernel_matrix # None =>
       IsShiftedBy(tmp[i].kernel_matrix, tmp[i].K, JitterValue(args.jitter))

=============================================================================
